---------------------------- MODULE Spec2Model ----------------------------
(***************************************************************************)
(* A model of Source/VoxelTerrain/Private/VoxelTerrainActor.cpp:           *)
(*   - VoxelTerrainPager::pageIn, the nested loop that evaluates the noise *)
(*     graph and writes one MaterialDensityPair44 per voxel of a region;   *)
(*   - the material partition loop of AVoxelTerrainActor::BeginPlay.       *)
(* Real values (the doubles of the noise kernel) are fixed-point integers  *)
(* with denominator FP; ore values are in hundredths.                      *)
(***************************************************************************)
EXTENDS Integers, Sequences, FiniteSets

\* ------------------------------------------------------------------ bounds
\* Side lengths of a chunk (PolyVox chunks are far larger; scaled down).
SideX == 2
SideY == 2
SideZ == 6
\* The decoded mesh: size of the vertex buffer, longest index buffer, and the
\* largest number of entries of TerrainMaterials.
NumVerts == 3
MaxIndices == 6
MaxMaterials == 2
\* How many times pageIn is called on one chunk.
MaxRuns == 2
\* The partition loop's counter is followed up to this value once it runs past
\* the index buffer.
MaxI == 3

\* --------------------------------------------------------------- constants
\* Denominator of the fixed-point representation of the kernel's doubles.
FP == 4
\* MaterialDensityPair44: four bits of material, four bits of density.
MaterialBits == 4
DensityBits == 4
\* Voxel.setDensity(bSolid ? 255 : 0)
SolidDensity == 255
\* int DirtThickness = 3
DirtThickness == 3
\* EvaluatedOreFractal > 1.95, in hundredths
OreThreshold == 195
\* FPolyVoxVector(position) * 100.f
WorldScale == 100
\* uint32: two 16-bit halves (the model checker's integers are 32-bit signed)
HalfWord == 65536

Threads == {1, 2}

VARIABLES
    actor,          \* the AVoxelTerrainActor's noise properties
    Seed, NoiseOctaves, NoiseFrequency, NoiseScale, NoiseOffset, TerrainHeight,
                    \* the VoxelTerrainPager's fields
    ubMode,         \* what an out-of-range Chunk::setVoxel does in this build
    region,         \* region[t]: the region of the chunk thread t pages in
    Chunk,          \* Chunk[t]: the voxel storage of that chunk
    log,            \* log[t]: the setVoxel calls of the running pageIn, in order
    x, y, z,        \* the loop counters of pageIn, per thread
    pc,             \* the position of each thread in pageIn
    runs,           \* runs[t]: how many pageIn calls have returned
    overwritten,    \* "no"; "dirty": a voxel was set by the volume's user after the
                    \* last pageIn; "clean": a pageIn was called since
    first,          \* the storage of chunk 1 when its first pageIn returned
    DecodedMesh,    \* the decoded mesh: its index buffer
    NumMaterials,   \* TerrainMaterials.Num()
    Material, i,    \* the loop counters of BeginPlay
    Vertices, Indices, Normals, Tangents,   \* the buffers of the section being built
    sections,       \* the sections handed to CreateMeshSection, in order
    reads,          \* the arguments of the getIndex calls made so far
    mpc             \* the position of BeginPlay

pagerVars == <<Seed, NoiseOctaves, NoiseFrequency, NoiseScale, NoiseOffset, TerrainHeight>>
pageVars == <<actor, pagerVars, ubMode, region, Chunk, log, x, y, z, pc, runs,
              overwritten, first>>
meshVars == <<DecodedMesh, NumMaterials, Material, i, Vertices, Indices, Normals,
              Tangents, sections, reads, mpc>>
vars == <<pageVars, meshVars>>

\* ----------------------------------------------------------------- helpers
\* C++ integer division truncates toward zero.
CDiv(a, b) == IF a >= 0 THEN a \div b ELSE -((-a) \div b)

\* uint32 values as [hi, lo], with the subtraction and comparison of the type.
U32(n) == [hi |-> (n \div HalfWord) % HalfWord, lo |-> n % HalfWord]
U32Sub(a, b) ==
    LET borrow == IF a.lo < b.lo THEN 1 ELSE 0
    IN  [hi |-> (a.hi - b.hi - borrow) % HalfWord, lo |-> (a.lo - b.lo) % HalfWord]
U32Less(a, b) == a.hi < b.hi \/ (a.hi = b.hi /\ a.lo < b.lo)

\* --------------------------------------------------- MaterialDensityPair44
DefaultVoxel == [density |-> 0, material |-> 0]
setDensity(v, d) == [v EXCEPT !.density = d % (2 ^ DensityBits)]
setMaterial(v, m) == [v EXCEPT !.material = m % (2 ^ MaterialBits)]

\* ------------------------------------------------------------ noise kernel
\* Values are integers v standing for v / FP.
constant(c) == c * FP
Zero == constant(0)
One == constant(1)
Half == FP \div 2
subtract(a, b) == a - b
divide(a, b) == (a * FP) \div b
clamp(v, lo, hi) == IF v < lo THEN lo ELSE IF v > hi THEN hi ELSE v
\* falloff is 0 at the only call: a hard step at the threshold
select(low, high, control, threshold, falloff) ==
    IF control < threshold THEN low ELSE high
scaleOffset(v, scale, offset) == v * scale + offset * FP

\* The simplex fractals are a deterministic function of their arguments and the
\* coordinate with values in [-1, 1] (fBm) and around the ore threshold (ridged
\* multifractal, in hundredths); the model fixes one such function per seed.
simplefBm(octaves, frequency, seed, cx, cy, cz) ==
    ((7 * seed + octaves + frequency + 3 * cx + 5 * cy + 2 * cz) % (2 * FP + 1)) - FP
simpleRidgedMultifractal(octaves, frequency, seed, cx, cy, cz) ==
    OreThreshold - 2 + ((11 * seed + octaves + frequency + 3 * cx + 5 * cy + 7 * cz) % 4)

VerticalHeight == constant(TerrainHeight)
HalfVerticalHeight == (TerrainHeight * FP) \div 2
VerticalGradient(cx, cy, cz) ==
    divide(clamp(subtract(VerticalHeight, cz), Zero, VerticalHeight), VerticalHeight)
VerticalSelect(cx, cy, cz) ==
    select(Zero, One, VerticalGradient(cx, cy, cz), Half, Zero)
TerrainFractal(cx, cy, cz) ==
    simplefBm(NoiseOctaves, NoiseFrequency, Seed, cx, cy, cz)
TerrainScale(cx, cy, cz) ==
    scaleOffset(TerrainFractal(cx, cy, cz), NoiseScale, NoiseOffset)
\* scaleZ(src, Zero): src evaluated with its z coordinate multiplied by 0
TerrainZScaleBy(cx, cy, cz, s) == TerrainScale(cx, cy, (cz * s) \div FP)
TerrainZScaleOne(cx, cy, cz) == TerrainZScaleBy(cx, cy, cz, One)
TerrainZScale(cx, cy, cz) == TerrainZScaleBy(cx, cy, cz, Zero)
\* translateZ(src, tz): src evaluated at z + tz(x, y, z)
PerturbGradient(cx, cy, cz) == VerticalSelect(cx, cy, cz + TerrainZScale(cx, cy, cz))
GrassZ(cx, cy, cz) == subtract(HalfVerticalHeight, TerrainZScale(cx, cy, cz))
OreFractal(cx, cy, cz) ==
    simpleRidgedMultifractal(2, 5 * NoiseFrequency, Seed, cx, cy, cz)

\* CNoiseExecutor::evaluateScalar at an integer voxel coordinate, for the instruction
\* index of a node of the kernel
evaluateScalar(gx, gy, gz, idx) ==
    CASE idx = "PerturbGradient" -> PerturbGradient(gx, gy, gz * FP)
      [] idx = "GrassZ"          -> GrassZ(gx, gy, gz * FP)
      [] idx = "OreFractal"      -> OreFractal(gx, gy, gz * FP)
FloorToInt(v) == v \div FP

\* ------------------------------------------------------------------ pageIn
\* Lines 166-203: the density and material of the voxel at a global coordinate.
VoxelDensityInverted(bSolid) == IF bSolid THEN 0 ELSE SolidDensity
VoxelDensity(bSolid) == IF bSolid THEN SolidDensity ELSE 0

SelectMaterialOreFirst(bSolid, gz, ActualGrassZ, EvaluatedOreFractal) ==
    LET DirtZ == ActualGrassZ - 1
    IN  IF bSolid
        THEN IF gz >= ActualGrassZ THEN 3
             ELSE IF EvaluatedOreFractal > OreThreshold THEN 4
             ELSE IF gz <= DirtZ /\ gz > (DirtZ - DirtThickness) THEN 2
             ELSE 1
        ELSE 0
SelectMaterial(bSolid, gz, ActualGrassZ, EvaluatedOreFractal) ==
    LET DirtZ == ActualGrassZ - 1
    IN  IF bSolid
        THEN IF gz >= ActualGrassZ THEN 3
             ELSE IF gz <= DirtZ /\ gz > (DirtZ - DirtThickness) THEN 2
             ELSE IF EvaluatedOreFractal > OreThreshold THEN 4
             ELSE 1
        ELSE 0

TerrainVoxel(gx, gy, gz) ==
    LET EvaluatedNoise == evaluateScalar(gx, gy, gz, "PerturbGradient")
        bSolid == EvaluatedNoise > Half
        ActualGrassZ == FloorToInt(evaluateScalar(gx, gy, gz, "GrassZ"))
        EvaluatedOreFractal == evaluateScalar(gx, gy, gz, "OreFractal")
    IN  setMaterial(setDensity(DefaultVoxel, VoxelDensity(bSolid)),
                    SelectMaterial(bSolid, gz, ActualGrassZ, EvaluatedOreFractal))

\* Chunk storage: chunk-local coordinates [0, side) on each axis.
LocalCoords == (0 .. SideX - 1) \X (0 .. SideY - 1) \X (0 .. SideZ - 1)
InChunk(p) == p \in LocalCoords
\* Where a write past the end of one chunk's array lands in another array.
Wrapped(p) == <<p[1] % SideX, p[2] % SideY, p[3] % SideZ>>
Other(t) == 3 - t

getLowerX(r) == r.lo[1]
getLowerY(r) == r.lo[2]
getLowerZ(r) == r.lo[3]
getUpperX(r) == r.hi[1]
getUpperY(r) == r.hi[2]
getUpperZ(r) == r.hi[3]

\* Chunk->setVoxel(x - lowerX, y - lowerY, z - lowerZ, Voxel) by thread t. A position
\* outside the chunk is an assertion failure in a build with PolyVox's asserts and a
\* write past the chunk's array in one without.
setVoxel(t, p, Voxel) ==
    IF InChunk(p)
    THEN /\ Chunk' = [Chunk EXCEPT ![t][p] = Voxel]
         /\ pc' = pc
    ELSE CASE ubMode = "assert"  -> /\ pc' = [pc EXCEPT ![t] = "aborted"]
                                    /\ Chunk' = Chunk
           [] ubMode = "stray"   -> /\ pc' = pc
                                    /\ Chunk' = Chunk
           [] ubMode = "clobber" -> /\ pc' = pc
                                    /\ Chunk' = [Chunk EXCEPT ![Other(t)][Wrapped(p)] = Voxel]

\* The pager is entered: pageIn(region[t], Chunk[t]) on thread t.
PageInCall(t) ==
    /\ pc[t] \in {"idle", "done"}
    /\ runs[t] < MaxRuns
    /\ pc' = [pc EXCEPT ![t] = "loopx"]
    /\ x' = [x EXCEPT ![t] = getLowerX(region[t])]
    /\ log' = [log EXCEPT ![t] = <<>>]
    /\ overwritten' = IF t = 1 /\ overwritten = "dirty" THEN "clean" ELSE overwritten
    /\ UNCHANGED <<actor, pagerVars, ubMode, region, Chunk, y, z, runs, first>>

\* for (int x = lowerX; x <= upperX; x++)
LoopX(t) ==
    /\ pc[t] = "loopx"
    /\ IF x[t] <= getUpperX(region[t])
       THEN /\ y' = [y EXCEPT ![t] = getLowerY(region[t])]
            /\ pc' = [pc EXCEPT ![t] = "loopy"]
            /\ UNCHANGED <<runs, first>>
       ELSE /\ pc' = [pc EXCEPT ![t] = "done"]
            /\ runs' = [runs EXCEPT ![t] = @ + 1]
            /\ first' = IF t = 1 /\ runs[t] = 0 THEN Chunk[1] ELSE first
            /\ y' = y
    /\ UNCHANGED <<actor, pagerVars, ubMode, region, Chunk, log, x, z, overwritten>>

\* for (int y = lowerY; y <= upperY / 2; y++)
LoopY(t) ==
    /\ pc[t] = "loopy"
    /\ IF y[t] <= CDiv(getUpperY(region[t]), 2)
       THEN /\ z' = [z EXCEPT ![t] = getLowerZ(region[t])]
            /\ pc' = [pc EXCEPT ![t] = "loopz"]
            /\ x' = x
       ELSE /\ x' = [x EXCEPT ![t] = @ + 1]
            /\ pc' = [pc EXCEPT ![t] = "loopx"]
            /\ z' = z
    /\ UNCHANGED <<actor, pagerVars, ubMode, region, Chunk, log, y, runs, overwritten, first>>

\* for (int z = lowerZ; z <= upperZ; z++) { ... setVoxel(...) }
LoopZ(t) ==
    /\ pc[t] = "loopz"
    /\ IF z[t] <= getUpperZ(region[t])
       THEN LET Voxel == TerrainVoxel(x[t], y[t], z[t])
                p == <<x[t] - getLowerX(region[t]), y[t] - getLowerY(region[t]),
                       z[t] - getLowerZ(region[t])>>
            IN  /\ log' = [log EXCEPT ![t] =
                             Append(@, [pos |-> p, at |-> <<x[t], y[t], z[t]>>, voxel |-> Voxel])]
                /\ setVoxel(t, p, Voxel)
                /\ z' = [z EXCEPT ![t] = @ + 1]
                /\ y' = y
       ELSE /\ y' = [y EXCEPT ![t] = @ + 1]
            /\ pc' = [pc EXCEPT ![t] = "loopy"]
            /\ UNCHANGED <<Chunk, log, z>>
    /\ UNCHANGED <<actor, pagerVars, ubMode, region, x, runs, overwritten, first>>

\* The volume's user sets one voxel of chunk 1 after a pageIn has filled it: a voxel
\* of the chunk's first row along y, or the chunk's last voxel.
OverwriteVoxels == {[density |-> 15, material |-> 1]}
OverwriteCoords ==
    {<<0, py, 0>> : py \in 0 .. SideY - 1} \cup {<<SideX - 1, SideY - 1, SideZ - 1>>}
Overwrite ==
    /\ pc[1] = "done"
    /\ runs[1] < MaxRuns
    /\ overwritten = "no"
    /\ \E p \in OverwriteCoords, v \in OverwriteVoxels :
          /\ Chunk[1][p] # v
          /\ Chunk' = [Chunk EXCEPT ![1][p] = v]
    /\ overwritten' = "dirty"
    /\ UNCHANGED <<actor, pagerVars, ubMode, region, log, x, y, z, pc, runs, first>>

\* ------------------------------------------------------- initial conditions
ChunkRegion(lo) ==
    [lo |-> lo, hi |-> <<lo[1] + SideX - 1, lo[2] + SideY - 1, lo[3] + SideZ - 1>>]
\* A region the volume hands to the pager: the cuboid of one chunk.
ValidRegion(r) == r = ChunkRegion(r.lo)

\* Regions of chunks at, below and beside the origin, and two regions that are not
\* the cuboid of a chunk: an upper corner below the lower one, and one voxel too wide.
ChunkRegions ==
    {ChunkRegion(<<0, 0, 0>>), ChunkRegion(<<SideX, -SideY, 0>>),
     ChunkRegion(<<0, SideY, 0>>), ChunkRegion(<<0, 0, -SideZ>>)}
BadRegions ==
    {[lo |-> <<0, 0, 0>>, hi |-> <<-1, SideY - 1, SideZ - 1>>],
     [lo |-> <<0, 0, 0>>, hi |-> <<SideX, SideY - 1, SideZ - 1>>]}

\* The actor's properties (the constructor's defaults, with the heights and scales
\* brought down to the size of the model's chunks).
ActorProperties ==
    [Seed : {1, 2, 3}, NoiseOctaves : {3}, NoiseFrequency : {1}, NoiseScale : {3},
     NoiseOffset : {0}, TerrainHeight : {7, 8}]

UbModes == {"assert", "stray", "clobber"}

\* new VoxelTerrainPager(Seed, NoiseOctaves, ...): the pager copies the actor's values.
InitPager ==
    /\ actor \in ActorProperties
    /\ Seed = actor.Seed
    /\ NoiseOctaves = actor.NoiseOctaves
    /\ NoiseFrequency = actor.NoiseFrequency
    /\ NoiseScale = actor.NoiseScale
    /\ NoiseOffset = actor.NoiseOffset
    /\ TerrainHeight = actor.TerrainHeight
    /\ ubMode \in UbModes
    /\ Chunk = [t \in Threads |-> [p \in LocalCoords |-> DefaultVoxel]]
    /\ log = [t \in Threads |-> <<>>]
    /\ x = [t \in Threads |-> 0]
    /\ y = [t \in Threads |-> 0]
    /\ z = [t \in Threads |-> 0]
    /\ pc = [t \in Threads |-> "idle"]
    /\ runs = [t \in Threads |-> 0]
    /\ overwritten = "no"
    /\ first = [p \in LocalCoords |-> DefaultVoxel]

InitMeshIdle ==
    /\ DecodedMesh = <<>>
    /\ NumMaterials = 0
    /\ Material = 0
    /\ i = 0
    /\ Vertices = <<>>
    /\ Indices = <<>>
    /\ Normals = <<>>
    /\ Tangents = <<>>
    /\ sections = <<>>
    /\ reads = {}
    /\ mpc = "idle"

\* One chunk paged in, possibly again after a voxel of it was overwritten.
InitPage ==
    /\ InitPager
    /\ \E r \in ChunkRegions \cup BadRegions :
          region = [t \in Threads |-> IF t = 1 THEN r ELSE ChunkRegion(<<0, 0, SideZ>>)]
    /\ InitMeshIdle

NextPage ==
    \/ PageInCall(1) /\ UNCHANGED meshVars
    \/ LoopX(1) /\ UNCHANGED meshVars
    \/ LoopY(1) /\ UNCHANGED meshVars
    \/ LoopZ(1) /\ UNCHANGED meshVars
    \/ Overwrite /\ UNCHANGED meshVars

Spec == InitPage /\ [][NextPage]_vars

\* Two chunks paged in by two threads.
RegionPairs ==
    {<<ChunkRegion(<<0, 0, 0>>), ChunkRegion(<<SideX, 0, 0>>)>>,
     <<ChunkRegion(<<0, 0, 0>>), ChunkRegion(<<0, -SideY, 0>>)>>}

InitConc ==
    /\ InitPager
    /\ \E rr \in RegionPairs : region = [t \in Threads |-> rr[t]]
    /\ InitMeshIdle

NextConc ==
    \E t \in Threads :
        \/ PageInCall(t) /\ UNCHANGED meshVars
        \/ LoopX(t) /\ UNCHANGED meshVars
        \/ LoopY(t) /\ UNCHANGED meshVars
        \/ LoopZ(t) /\ UNCHANGED meshVars

SpecConc == InitConc /\ [][NextConc]_vars

\* --------------------------------------------------------------- BeginPlay
\* FVector arithmetic on integer coordinates.
VSub(a, b) == <<a[1] - b[1], a[2] - b[2], a[3] - b[3]>>
VScale(a, k) == <<a[1] * k, a[2] * k, a[3] * k>>
\* FVector::operator^
Cross(a, b) ==
    <<a[2] * b[3] - a[3] * b[2], a[3] * b[1] - a[1] * b[3], a[1] * b[2] - a[2] * b[1]>>
Dot(a, b) == a[1] * b[1] + a[2] * b[2] + a[3] * b[3]
Abs(n) == IF n < 0 THEN -n ELSE n
RECURSIVE Gcd(_, _)
Gcd(a, b) == IF b = 0 THEN a ELSE Gcd(b, a % b)
\* GetSafeNormal: the zero vector for a zero vector, else the vector of the same
\* direction of a fixed length (here: the shortest integer vector of that direction).
GetSafeNormal(v) ==
    LET d == Gcd(Gcd(Abs(v[1]), Abs(v[2])), Abs(v[3]))
    IN  IF d = 0 THEN <<0, 0, 0>> ELSE <<v[1] \div d, v[2] \div d, v[3] \div d>>

\* The decoded mesh's vertex buffer: positions on the unit cube's corners, material
\* tags in 1 .. MaxMaterials.
VertexIds == 0 .. NumVerts - 1
getVertex(Index) ==
    [position |-> <<Index % 2, (Index \div 2) % 2, (Index \div 3) % 2>>,
     material |-> (Index % MaxMaterials) + 1]
getNoOfIndices == Len(DecodedMesh)
\* FPolyVoxVector(v): the same components as an FVector
FPolyVoxVector(v) == v

\* i < DecodedMesh.getNoOfIndices() - 2, in uint32
LoopCondition == U32Less(U32(i), U32Sub(U32(getNoOfIndices), U32(2)))
\* What getIndex(k) can return: the k-th index, or any value when k is past the end.
getIndex(k) == IF k < getNoOfIndices THEN {DecodedMesh[k + 1]} ELSE VertexIds

\* Lines 73-81: the three vertices added for a triangle, and lines 84-88: its normal
\* and tangent.
TriangleVerticesRawOrder(P0, P1, P2) ==
    <<VScale(FPolyVoxVector(P0), WorldScale), VScale(FPolyVoxVector(P1), WorldScale),
      VScale(FPolyVoxVector(P2), WorldScale)>>
TriangleVertices(P0, P1, P2) ==
    <<VScale(FPolyVoxVector(P2), WorldScale), VScale(FPolyVoxVector(P1), WorldScale),
      VScale(FPolyVoxVector(P0), WorldScale)>>
TriangleNormalFlipped(P0, P1, P2) ==
    GetSafeNormal(Cross(FPolyVoxVector(VSub(P2, P0)), FPolyVoxVector(VSub(P1, P0))))
TriangleNormal(P0, P1, P2) ==
    LET Edge01 == FPolyVoxVector(VSub(P1, P0))
        Edge02 == FPolyVoxVector(VSub(P2, P0))
    IN  GetSafeNormal(Cross(Edge01, Edge02))
TriangleTangent(P0, P1, P2) == GetSafeNormal(FPolyVoxVector(VSub(P1, P0)))

\* for (int Material = 0; Material < TerrainMaterials.Num; Material++) { fresh arrays
OuterLoop ==
    /\ mpc = "outer"
    /\ IF Material < NumMaterials
       THEN /\ mpc' = "inner"
            /\ i' = 0
            /\ Vertices' = <<>>
            /\ Indices' = <<>>
            /\ Normals' = <<>>
            /\ Tangents' = <<>>
       ELSE /\ mpc' = "done"
            /\ UNCHANGED <<i, Vertices, Indices, Normals, Tangents>>
    /\ UNCHANGED <<DecodedMesh, NumMaterials, Material, sections, reads>>

\* One turn of the loop over the triangle vertex indices. Past the end of the index
\* buffer the reads return anything; the counter is followed up to MaxI.
InnerBody ==
    /\ mpc = "inner"
    /\ LoopCondition
    /\ i + 2 < getNoOfIndices \/ i <= MaxI
    /\ \E Index2 \in getIndex(i + 2) :
          LET Vertex2 == getVertex(Index2)
              TriangleMaterial == Vertex2.material
          IN  IF TriangleMaterial = Material + 1
              THEN \E Index1 \in getIndex(i + 1), Index0 \in getIndex(i) :
                      LET P0 == getVertex(Index0).position
                          P1 == getVertex(Index1).position
                          P2 == Vertex2.position
                          n == Len(Vertices)
                      IN  /\ Vertices' = Vertices \o TriangleVertices(P0, P1, P2)
                          /\ Indices' = Indices \o <<n, n + 1, n + 2>>
                          /\ Tangents' = Tangents \o [k \in 1 .. 3 |-> TriangleTangent(P0, P1, P2)]
                          /\ Normals' = Normals \o [k \in 1 .. 3 |-> TriangleNormal(P0, P1, P2)]
                          /\ reads' = reads \cup {i + 2, i + 1, i}
              ELSE /\ reads' = reads \cup {i + 2}
                   /\ UNCHANGED <<Vertices, Indices, Normals, Tangents>>
    /\ i' = i + 3
    /\ UNCHANGED <<DecodedMesh, NumMaterials, Material, sections, mpc>>

\* getIndex(i + 2) past the end of the index buffer ends the process.
InnerFault ==
    /\ mpc = "inner"
    /\ LoopCondition
    /\ i + 2 >= getNoOfIndices
    /\ reads' = reads \cup {i + 2}
    /\ mpc' = "crashed"
    /\ UNCHANGED <<DecodedMesh, NumMaterials, Material, i, Vertices, Indices, Normals,
                   Tangents, sections>>

\* Mesh->CreateMeshSection(Material, Vertices, Indices, Normals, ..., Tangents, true)
CreateMeshSection ==
    /\ mpc = "inner"
    /\ ~LoopCondition
    /\ sections' = Append(sections, [Material |-> Material, Vertices |-> Vertices,
                                     Indices |-> Indices, Normals |-> Normals,
                                     Tangents |-> Tangents])
    /\ Material' = Material + 1
    /\ mpc' = "outer"
    /\ UNCHANGED <<DecodedMesh, NumMaterials, i, Vertices, Indices, Normals, Tangents, reads>>

\* BeginPlay on a decoded mesh: any index buffer of up to MaxIndices indices into the
\* vertex buffer, any number of terrain materials up to MaxMaterials.
InitMesh ==
    /\ InitPager
    /\ region = [t \in Threads |-> ChunkRegion(<<0, 0, 0>>)]
    /\ actor.Seed = 1 /\ actor.TerrainHeight = 8 /\ ubMode = "assert"
    /\ DecodedMesh \in UNION {[1 .. n -> VertexIds] : n \in 0 .. MaxIndices}
    /\ NumMaterials \in 0 .. MaxMaterials
    /\ Material = 0
    /\ i = 0
    /\ Vertices = <<>>
    /\ Indices = <<>>
    /\ Normals = <<>>
    /\ Tangents = <<>>
    /\ sections = <<>>
    /\ reads = {}
    /\ mpc = "outer"

NextMesh ==
    \/ OuterLoop /\ UNCHANGED pageVars
    \/ InnerBody /\ UNCHANGED pageVars
    \/ InnerFault /\ UNCHANGED pageVars
    \/ CreateMeshSection /\ UNCHANGED pageVars

SpecMesh == InitMesh /\ [][NextMesh]_vars

\* ============================================================ the claims
\* The setVoxel calls of the pageIn of thread t, and the fields at a call's coordinate.
Entries(t) == {log[t][k] : k \in DOMAIN log[t]}
AllEntries == UNION {Entries(t) : t \in Threads}
SolidityAt(e) == evaluateScalar(e.at[1], e.at[2], e.at[3], "PerturbGradient")
GrassLineAt(e) == FloorToInt(evaluateScalar(e.at[1], e.at[2], e.at[3], "GrassZ"))
OreAt(e) == evaluateScalar(e.at[1], e.at[2], e.at[3], "OreFractal")
Box(r) == (r.lo[1] .. r.hi[1]) \X (r.lo[2] .. r.hi[2]) \X (r.lo[3] .. r.hi[3])
LocalOf(r, g) == <<g[1] - r.lo[1], g[2] - r.lo[2], g[3] - r.lo[3]>>

\* C1: when pageIn has returned, every coordinate of the inclusive box [min, max] was
\* written exactly once, at chunk-local coordinate global - min, and no chunk-local
\* coordinate outside [0, max - min] was written.
C1_FullCoverage ==
    \A t \in Threads :
        pc[t] = "done" =>
            /\ \A g \in Box(region[t]) :
                  Cardinality({k \in DOMAIN log[t] :
                                  log[t][k].at = g /\ log[t][k].pos = LocalOf(region[t], g)}) = 1
            /\ \A e \in Entries(t) :
                  \A a \in 1 .. 3 : 0 <= e.pos[a] /\ e.pos[a] <= region[t].hi[a] - region[t].lo[a]

\* C2: the material of every written voxel follows the precedence Grass > Dirt > Ore >
\* Stone when the solidity field is above 0.5, and is Air otherwise.
C2_MaterialPrecedence ==
    \A e \in AllEntries :
        LET g == GrassLineAt(e)
            zz == e.at[3]
            solid == SolidityAt(e) > Half
        IN  /\ (~solid) => e.voxel.material = 0
            /\ (solid /\ zz >= g) => e.voxel.material = 3
            /\ (solid /\ zz < g /\ g - 1 - 3 < zz /\ zz <= g - 1) => e.voxel.material = 2
            /\ (solid /\ zz < g /\ ~(g - 1 - 3 < zz /\ zz <= g - 1) /\ OreAt(e) > 195)
                  => e.voxel.material = 4
            /\ (solid /\ zz < g /\ ~(g - 1 - 3 < zz /\ zz <= g - 1) /\ OreAt(e) <= 195)
                  => e.voxel.material = 1

\* A pageIn has returned having written a Dirt voxel whose ore field is above 1.95, an
\* Ore voxel, a Stone voxel and a Grass voxel.
C2_Witness ==
    /\ pc[1] = "done"
    /\ \E e \in Entries(1) : e.voxel.material = 2 /\ OreAt(e) > 195
    /\ \E e \in Entries(1) : e.voxel.material = 4
    /\ \E e \in Entries(1) : e.voxel.material = 1
    /\ \E e \in Entries(1) : e.voxel.material = 3

C6_Idempotent ==
    (pc[1] = "done" /\ runs[1] >= 2 /\ overwritten # "dirty") =>
        \A g \in Box(region[1]) :
            InChunk(LocalOf(region[1], g)) =>
                Chunk[1][LocalOf(region[1], g)] = first[LocalOf(region[1], g)]

\* C8: with a region that is not the cuboid of a chunk, pageIn writes no voxel and
\* does not return normally.
C8_InvalidRegionFails ==
    \A t \in Threads :
        ~ValidRegion(region[t]) => (pc[t] # "done" /\ log[t] = <<>>)

\* The written voxels of one column, and the column's solid ones.
SameColumn(e, f) == e.at[1] = f.at[1] /\ e.at[2] = f.at[2]
IsSolid(e) == e.voxel.density # 0
SolidBelow(t, e) == {f \in Entries(t) : f.at[3] < e.at[3] /\ IsSolid(f) /\ SameColumn(e, f)}
SolidAbove(t, e) == {f \in Entries(t) : f.at[3] > e.at[3] /\ IsSolid(f) /\ SameColumn(e, f)}
DownwardClosed(t) ==
    \A e, f \in Entries(t) :
        (f.at[3] < e.at[3] /\ IsSolid(e) /\ SameColumn(e, f)) => IsSolid(f)
\* A column written up to the top of the region.
ColumnDone(t, e) == \E f \in Entries(t) : SameColumn(e, f) /\ f.at[3] = getUpperZ(region[t])

\* C9 as stated: in every written column the solid voxels are downward-closed, exactly
\* the topmost solid voxel is Grass, the up to 3 solid voxels below it are Dirt and the
\* solid voxels below those are Stone or Ore.
C9_TopmostIsGrass ==
    \A t \in Threads :
        /\ DownwardClosed(t)
        /\ \A e \in Entries(t) :
              (IsSolid(e) /\ ColumnDone(t, e)) =>
                  LET depth == Cardinality(SolidAbove(t, e))
                  IN  /\ (depth = 0) <=> (e.voxel.material = 3)
                      /\ (1 <= depth /\ depth <= 3) => e.voxel.material = 2
                      /\ (depth > 3) => e.voxel.material \in {1, 4}

\* C9 (amended): in every written column (x, y), with g = floor(grassLine(x, y)): the
\* solid voxels are those with z <= g, so they are downward-closed; the voxel at z = g is
\* the only Grass voxel, so the topmost solid voxel is Grass exactly when g is not above
\* the z range written; the voxels with g-3 <= z <= g-1 are Dirt; the voxels below are
\* Stone or Ore.
C9_Layering ==
    \A t \in Threads :
        /\ DownwardClosed(t)
        /\ \A e \in Entries(t) :
              LET g == FloorToInt(evaluateScalar(e.at[1], e.at[2], getLowerZ(region[t]), "GrassZ"))
                  zz == e.at[3]
                  m == e.voxel.material
              IN  /\ IsSolid(e) <=> (zz <= g)
                  /\ (m = 3) <=> (zz = g)
                  /\ (m = 2) <=> (g - 3 <= zz /\ zz <= g - 1)
                  /\ (m \in {1, 4}) <=> (zz <= g - 4)
                  /\ (IsSolid(e) /\ ColumnDone(t, e) /\ SolidAbove(t, e) = {})
                        => ((m = 3) <=> (g <= getUpperZ(region[t])))

\* A finished column whose grass line is above the region: its topmost solid voxel is
\* not Grass; and a finished column with Air, Grass, three Dirt and Stone or Ore.
C9_Witness ==
    /\ pc[1] = "done"
    /\ \E e \in Entries(1) :
          /\ IsSolid(e) /\ SolidAbove(1, e) = {}
          /\ GrassLineAt(e) > getUpperZ(region[1])
          /\ e.voxel.material # 3
    /\ \E e \in Entries(1) :
          /\ e.voxel.material = 3
          /\ \E f \in Entries(1) : SameColumn(e, f) /\ ~IsSolid(f)
          /\ Cardinality({f \in SolidBelow(1, e) : f.voxel.material = 2}) = 3
          /\ \E f \in SolidBelow(1, e) : f.voxel.material \in {1, 4}

\* What one pageIn alone leaves in the chunk of thread t, starting from a fresh chunk:
\* the voxels of the coordinates its loops visit.
Visited(r) ==
    (r.lo[1] .. r.hi[1]) \X (r.lo[2] .. CDiv(r.hi[2], 2)) \X (r.lo[3] .. r.hi[3])
SeqResult(t) ==
    [p \in LocalCoords |->
        IF \E g \in Visited(region[t]) : LocalOf(region[t], g) = p
        THEN LET g == CHOOSE g \in Visited(region[t]) : LocalOf(region[t], g) = p
             IN  TerrainVoxel(g[1], g[2], g[3])
        ELSE DefaultVoxel]

\* C7: pageIn calls on two chunks, interleaved in any way, write only into their own
\* chunk, leave the pager's fields as constructed, and leave both chunks as the two
\* calls run one after the other leave them.
C7_IndependentChunks ==
    /\ pagerVars = <<actor.Seed, actor.NoiseOctaves, actor.NoiseFrequency,
                     actor.NoiseScale, actor.NoiseOffset, actor.TerrainHeight>>
    /\ \A t \in Threads : \A e \in Entries(t) : InChunk(e.pos)
    /\ (\A t \in Threads : pc[t] = "done") => \A t \in Threads : Chunk[t] = SeqResult(t)

\* The raw triangles of the decoded mesh, in order, and those whose reference vertex
\* (the third) carries tag m.
RawTriangles ==
    [k \in 1 .. (Len(DecodedMesh) \div 3) |->
        <<DecodedMesh[3 * k - 2], DecodedMesh[3 * k - 1], DecodedMesh[3 * k]>>]
HasTag(tr, m) == getVertex(tr[3]).material = m
TaggedTriangles(m) == SelectSeq(RawTriangles, LAMBDA tr : HasTag(tr, m))
RECURSIVE SumTriangles(_)
SumTriangles(ss) ==
    IF ss = <<>> THEN 0 ELSE (Len(Head(ss).Indices) \div 3) + SumTriangles(Tail(ss))
\* n and w point the same way (both zero for a degenerate triangle).
SameDirection(n, w) ==
    /\ Cross(n, w) = <<0, 0, 0>>
    /\ IF w = <<0, 0, 0>> THEN n = <<0, 0, 0>> ELSE Dot(n, w) > 0

\* C4: for a mesh of T triangles (3T indices) whose reference tags lie in [1, M], the
\* partition loop produces M sections; their triangle counts sum to T, each section has
\* three vertices per triangle, and every index is a position of its own vertex buffer.
C4_Partition ==
    (/\ Len(DecodedMesh) % 3 = 0
     /\ \A k \in DOMAIN RawTriangles :
           getVertex(RawTriangles[k][3]).material \in 1 .. NumMaterials)
    => /\ mpc # "crashed"
       /\ mpc = "done" =>
             /\ Len(sections) = NumMaterials
             /\ SumTriangles(sections) = Len(DecodedMesh) \div 3
             /\ \A k \in DOMAIN sections :
                   /\ Len(sections[k].Indices) = 3 * Len(TaggedTriangles(k))
                   /\ Len(sections[k].Vertices) = Len(sections[k].Indices)
                   /\ \A j \in DOMAIN sections[k].Indices :
                         /\ 0 <= sections[k].Indices[j]
                         /\ sections[k].Indices[j] < Len(sections[k].Vertices)

\* The j-th triangle of a section: its three vertices and its three normals.
Emitted(sec, j) == <<sec.Vertices[3 * j - 2], sec.Vertices[3 * j - 1], sec.Vertices[3 * j]>>
EmittedNormals(sec, j) == {sec.Normals[q] : q \in 3 * j - 2 .. 3 * j}
\* The raw triangle tr = (v0, v1, v2) reversed, in world units.
Reversed(tr) ==
    <<VScale(FPolyVoxVector(getVertex(tr[3]).position), 100),
      VScale(FPolyVoxVector(getVertex(tr[2]).position), 100),
      VScale(FPolyVoxVector(getVertex(tr[1]).position), 100)>>

\* C5 as stated: the section of a triangle's material receives (v2, v1, v0), and the
\* normal of those vertices points along the right-handed cross product of the edges of
\* the emitted order (e0, e1, e2) = (v2, v1, v0): (e1 - e0) x (e2 - e0) = (v1 - v2) x (v0 - v2).
C5_NormalOfEmittedOrder ==
    (mpc = "done" /\ Len(DecodedMesh) >= 3) =>
        \A k \in DOMAIN sections :
            \A j \in 1 .. Len(TaggedTriangles(k)) :
                LET sec == sections[k]
                    e == Emitted(sec, j)
                IN  /\ Len(sec.Vertices) >= 3 * j /\ Len(sec.Normals) >= 3 * j
                    /\ e = Reversed(TaggedTriangles(k)[j])
                    /\ \A n \in EmittedNormals(sec, j) :
                          SameDirection(n, Cross(VSub(e[2], e[1]), VSub(e[3], e[1])))

\* C5 (amended): the section of a triangle's material receives (v2, v1, v0), and the
\* normal of those vertices points along (v1 - v0) x (v2 - v0), the right-handed cross
\* product of the edges of the raw order; for the emitted order (e0, e1, e2) that is
\* (e1 - e2) x (e0 - e2), the opposite of (e1 - e0) x (e2 - e0).
C5_ReversedWithRawNormal ==
    (mpc = "done" /\ Len(DecodedMesh) >= 3) =>
        \A k \in DOMAIN sections :
            \A j \in 1 .. Len(TaggedTriangles(k)) :
                LET sec == sections[k]
                    e == Emitted(sec, j)
                IN  /\ Len(sec.Vertices) >= 3 * j /\ Len(sec.Normals) >= 3 * j
                    /\ e = Reversed(TaggedTriangles(k)[j])
                    /\ \A n \in EmittedNormals(sec, j) :
                          /\ SameDirection(n, Cross(VSub(e[2], e[3]), VSub(e[1], e[3])))
                          /\ SameDirection(n, VScale(Cross(VSub(e[2], e[1]), VSub(e[3], e[1])), -1))

\* BeginPlay has returned on a mesh of one triangle that is not degenerate, and the
\* section of its material holds it.
C5_Witness ==
    /\ mpc = "done"
    /\ Len(DecodedMesh) = 3
    /\ \E k \in DOMAIN sections :
          /\ Len(TaggedTriangles(k)) = 1
          /\ Len(sections[k].Vertices) = 3
          /\ sections[k].Normals[1] # <<0, 0, 0>>

\* C10: every getIndex(k) call of the loop has k < N, and with N < 3 the loop body is
\* never entered and every section is emitted empty.
C10_ReadsInRange ==
    /\ \A k \in reads : k < Len(DecodedMesh)
    /\ Len(DecodedMesh) < 3 =>
          /\ reads = {}
          /\ mpc # "crashed"
          /\ \A k \in DOMAIN sections : sections[k].Vertices = <<>>
          /\ mpc = "done" => Len(sections) = NumMaterials

=============================================================================
